---- MODULE Spec2Model ----
(***************************************************************************)
(* Order handling in the three HTTP back ends of sovereign-empire-api:     *)
(*   api.py                        in-memory list orders_db                *)
(*   content_api.py                in-memory dict orders_db + background   *)
(*                                 generation task                         *)
(*   api_with_email_notification.py  SQL table "orders" (database.py)      *)
(* Each back end is a separate FastAPI application; one behaviour of this  *)
(* model runs one of them (variable app), the stores of the other two stay *)
(* as constructed.  Every handler without an await point is one action.    *)
(*                                                                         *)
(* Money is counted in cents, time in whole days (2024-01-01 is day 1).    *)
(* The handlers of api_with_email_notification.py are modelled as they     *)
(* read, over an Order row that has the columns they use (order_id,        *)
(* status, created_at, updated_at) next to retry_count of database.py;     *)
(* database.py itself names the key column id and has no order_id.         *)
(* The call init_database() of lifespan is taken as init_database(url).    *)
(***************************************************************************)
EXTENDS Integers, Sequences, FiniteSets, TLC

(***************************************************************************)
(* Bounds of the model.                                                    *)
(***************************************************************************)
MaxCalls  == 3       \* HTTP requests handled per behaviour
MaxOrders == 2       \* orders created per behaviour

(***************************************************************************)
(* Python's None and a missing dict key, for integer and string fields.    *)
(***************************************************************************)
NoneInt   == -1
AbsentInt == -2
NoneStr   == "None"
AbsentStr == "<absent>"

VARIABLES
    app,            \* which application this behaviour runs
    script,         \* content_api.py: what the file create-premium-content.py holds
    now,            \* datetime.now(), in days
    orders_db,      \* api.py: the list orders_db
    content_orders_db,  \* content_api.py: the dict orders_db, order id -> record
    tasks,          \* content_api.py: the background tasks, in scheduling order
    default_dir,    \* the generator's directory premium_delivery_<type>: None or its files
    output_dirs,    \* the directories generated_orders/<order id>: order id -> files
    db_orders,      \* database.py: the rows of table orders
    db_jobs,        \* database.py: the rows of table jobs
    db_audit_logs,  \* database.py: the rows of table audit_logs, in id order
    order_count,    \* the counter file /tmp/order_count.txt
    notification,   \* how send_order_notification went in the last create_order call
    SessionLocal,   \* database.py: the global SessionLocal
    db_init,        \* database.py: init_database not called yet, returned, or raised
    createLog,      \* the create_order calls that succeeded: request and order id returned
    nCalls,         \* requests handled so far
    lastCall        \* the last request handled and its response

vars == <<app, script, now, orders_db, content_orders_db, tasks, default_dir, output_dirs,
          db_orders, db_jobs, db_audit_logs, order_count, notification, SessionLocal,
          db_init, createLog, nCalls, lastCall>>

\* the state of database.py once the application serves requests
sessionVars == <<SessionLocal, db_init>>

dbVars == <<db_orders, db_jobs, db_audit_logs, order_count, notification, sessionVars>>

Apps == {"api", "content_api", "email_api"}

(***************************************************************************)
(* api.py                                                                  *)
(***************************************************************************)
ApiOrder(id, tenant, topic, otype, ptype, status, price, paid, created, nbd, cycle, billed) ==
    [order_id |-> id, tenant_id |-> tenant, topic |-> topic, order_type |-> otype,
     package_type |-> ptype, status |-> status, price |-> price,
     paid |-> paid, created_at |-> created, next_billing_date |-> nbd,
     billing_cycle |-> cycle, total_billed |-> billed]

InitialOrdersDb ==
    << ApiOrder("ORD-0001", "DIRECT_CUSTOMER", "Dental SEO", "one_time", "dominance", "completed",
                49700, TRUE, 1, NoneInt, AbsentStr, AbsentInt),
       ApiOrder("ORD-0002", "DIRECT_CUSTOMER", "Local Plumbing SEO", "one_time", "dominance", "in_progress",
                49700, TRUE, 2, NoneInt, AbsentStr, AbsentInt),
       ApiOrder("ORD-0003", "DIRECT_CUSTOMER", "Legal Services Marketing", "one_time", "boost", "pending",
                35900, TRUE, 3, NoneInt, AbsentStr, AbsentInt),
       ApiOrder("SUB-0001", "DIRECT_CUSTOMER", "Monthly SEO Maintenance", "monthly", "retainer", "active",
                29700, TRUE, 4, 35, "monthly", 29700),
       ApiOrder("ORD-0005", "DIRECT_CUSTOMER", "Auto Detailing Marketing", "one_time", "boost", "pending",
                35900, TRUE, 5, NoneInt, AbsentStr, AbsentInt),
       ApiOrder("SUB-0002", "DIRECT_CUSTOMER", "Monthly Content Strategy", "monthly", "retainer", "active",
                29700, TRUE, 6, 37, "monthly", 29700) >>

\* f"{order_number:04d}"
Pad4(n) ==
    IF n < 10 THEN "000" \o ToString(n)
    ELSE IF n < 100 THEN "00" \o ToString(n)
    ELSE IF n < 1000 THEN "0" \o ToString(n)
    ELSE ToString(n)

\* f"{order_prefix}-{order_number:04d}"
FormatOrderId(prefix, n) == prefix \o "-" \o Pad4(n)

\* len([o for o in orders_db if o.get("order_type") == t])
CountOfType(db, t) == Cardinality({i \in DOMAIN db : db[i].order_type = t})

ApiNewOrderId(db, otype) ==
    IF otype = "monthly"
    THEN FormatOrderId("SUB", CountOfType(db, "monthly") + 1)
    ELSE FormatOrderId("ORD", CountOfType(db, "one_time") + 1)

\* the price taken from the request for every package type
ApiPackagePrice_FromRequest(ptype, reqPrice) == reqPrice

\* price set from the package type
ApiPackagePrice(ptype, reqPrice) ==
    IF ptype = "boost" THEN 35900
    ELSE IF ptype = "dominance" THEN 49700
    ELSE IF ptype = "retainer" THEN 29700
    ELSE reqPrice

ApiNewOrder(db, req, t) ==
    LET price == ApiPackagePrice(req.package_type, req.price)
        billing == req.order_type = "monthly" /\ req.paid
    IN  ApiOrder(ApiNewOrderId(db, req.order_type), req.tenant_id, req.topic, req.order_type,
                 req.package_type,
                 IF req.order_type = "one_time" THEN "pending" ELSE "active",
                 price, req.paid, t,
                 IF billing THEN t + 30 ELSE NoneInt,
                 IF req.order_type = "monthly" THEN "monthly" ELSE NoneStr,
                 IF billing THEN price ELSE 0)


\* Optional[...] fields of a request body: <<>> is None, <<v>> a value
None    == <<>>
Some(v) == <<v>>

\* OrderCreate bodies that pass the pydantic model (all required fields given)
ApiCreateRequests ==
    { [tenant_id |-> "T1", topic |-> "Dental SEO", order_type |-> ot,
       package_type |-> pt, price |-> 12300, paid |-> pd] :
         ot \in {"one_time", "monthly"},
         pt \in {"dominance", "custom"},
         pd \in BOOLEAN }
    \cup
    { [tenant_id |-> "T1", topic |-> "", order_type |-> "one_time",
       package_type |-> "boost", price |-> 12300, paid |-> FALSE],
      [tenant_id |-> "T1", topic |-> "Dental SEO", order_type |-> "one_time",
       package_type |-> "retainer", price |-> 12300, paid |-> FALSE] }

ApiUpdate(st, pr, pd, pt, ot, nbd) ==
    [status |-> st, price |-> pr, paid |-> pd, package_type |-> pt,
     order_type |-> ot, next_billing_date |-> nbd]

\* OrderUpdate bodies
ApiUpdateRequests ==
    { ApiUpdate(None, None, None, None, None, None),
      ApiUpdate(Some("pending"), None, None, None, None, None),
      ApiUpdate(Some(""), None, None, None, None, None),
      ApiUpdate(Some("cancelled"), None, None, None, None, None),
      ApiUpdate(None, Some(10000), None, None, None, None),
      ApiUpdate(None, None, Some(FALSE), None, None, None),
      ApiUpdate(None, None, None, None, Some("monthly"), None),
      ApiUpdate(Some("completed"), Some(10000), Some(TRUE), Some("custom"),
                Some("one_time"), Some(60)) }

\* order ids named in get / update / delete requests: a completed one-time
\* order, the id the next one-time order gets, a paid subscription, and the
\* id the next subscription gets (unknown until then)
ApiRequestIds == {"ORD-0001", "ORD-0005", "SUB-0001", "SUB-0003"}

\* the response to a request: HTTP status code and JSON body
Response(api, op, req, code, body) ==
    [api |-> api, op |-> op, req |-> req, code |-> code, body |-> body]

NoCall == Response("", "none", <<>>, 0, <<>>)

\* the search falling back to the first order of the list when none matches
ApiFind_DefaultFirst(db, id) ==
    IF \E i \in DOMAIN db : db[i].order_id = id
    THEN CHOOSE i \in DOMAIN db :
            /\ db[i].order_id = id
            /\ \A j \in DOMAIN db : db[j].order_id = id => i <= j
    ELSE IF db = <<>> THEN 0 ELSE 1

\* index of the first order of the list with this id, 0 if there is none
ApiFind(db, id) ==
    IF \E i \in DOMAIN db : db[i].order_id = id
    THEN CHOOSE i \in DOMAIN db :
            /\ db[i].order_id = id
            /\ \A j \in DOMAIN db : db[j].order_id = id => i <= j
    ELSE 0

\* Python truthiness of an Optional[str]
Truthy(opt) == opt /= None /\ opt[1] /= ""

\* update_order setting total_billed with every supplied price
ApiApplyUpdate_AlwaysBilled(order, update) ==
    LET o1 == IF update.status /= None /\ update.status[1] /= ""
              THEN [order EXCEPT !.status = update.status[1]] ELSE order
        o2 == IF update.price /= None
              THEN [o1 EXCEPT !.price = update.price[1], !.total_billed = update.price[1]]
              ELSE o1
        o3 == IF update.paid /= None
              THEN [o2 EXCEPT !.paid = update.paid[1]] ELSE o2
        o4 == IF update.package_type /= None /\ update.package_type[1] /= ""
              THEN [o3 EXCEPT !.package_type = update.package_type[1]] ELSE o3
        o5 == IF update.order_type /= None /\ update.order_type[1] /= ""
              THEN [o4 EXCEPT !.order_type = update.order_type[1]] ELSE o4
    IN  IF update.next_billing_date /= None
        THEN [o5 EXCEPT !.next_billing_date = update.next_billing_date[1]]
        ELSE o5

\* the body of the loop of update_order, applied to the matching order
ApiApplyUpdate(order, update) ==
    LET o1 == IF Truthy(update.status)
              THEN [order EXCEPT !.status = update.status[1]] ELSE order
        o2 == IF update.price /= None
              THEN [o1 EXCEPT !.price = update.price[1],
                              !.total_billed =
                                  IF o1.order_type = "monthly" /\ o1.paid
                                  THEN update.price[1] ELSE @]
              ELSE o1
        o3 == IF update.paid /= None
              THEN [o2 EXCEPT !.paid = update.paid[1]] ELSE o2
        o4 == IF Truthy(update.package_type)
              THEN [o3 EXCEPT !.package_type = update.package_type[1]] ELSE o3
        o5 == IF Truthy(update.order_type)
              THEN [o4 EXCEPT !.order_type = update.order_type[1]] ELSE o4
        o6 == IF update.next_billing_date /= None
              THEN [o5 EXCEPT !.next_billing_date = update.next_billing_date[1]]
              ELSE o5
    IN  o6

\* [order for order in orders_db if order["order_id"] != order_id]
ApiRemove(db, id) == SelectSeq(db, LAMBDA o : o.order_id /= id)

Called == nCalls' = nCalls + 1

Logged(api, req, id) == createLog' = createLog \cup {[api |-> api, req |-> req, order_id |-> id]}

\* POST /api/orders/create
ApiCreateOrder(req) ==
    /\ app = "api"
    /\ nCalls < MaxCalls
    /\ Len(orders_db) < Len(InitialOrdersDb) + MaxOrders
    /\ LET new_order == ApiNewOrder(orders_db, req, now)
       IN  /\ orders_db' = Append(orders_db, new_order)
           /\ lastCall' = Response("api", "create", req, 200, new_order)
           /\ Logged("api", req, new_order.order_id)
    /\ now' = now + 1
    /\ Called
    /\ UNCHANGED <<app, script, content_orders_db, tasks, default_dir, output_dirs, dbVars>>

\* GET /api/orders
ApiListOrders ==
    /\ app = "api"
    /\ nCalls < MaxCalls
    /\ lastCall' = Response("api", "list", <<>>, 200, orders_db)
    /\ Called
    /\ UNCHANGED <<app, script, now, createLog, orders_db, content_orders_db, tasks, default_dir, output_dirs, dbVars>>

\* GET /api/orders/{order_id}
ApiGetOrder(id) ==
    /\ app = "api"
    /\ nCalls < MaxCalls
    /\ LET i == ApiFind(orders_db, id)
       IN  lastCall' = IF i = 0
                       THEN Response("api", "get", [order_id |-> id], 404, <<>>)
                       ELSE Response("api", "get", [order_id |-> id], 200, orders_db[i])
    /\ Called
    /\ UNCHANGED <<app, script, now, createLog, orders_db, content_orders_db, tasks, default_dir, output_dirs, dbVars>>

\* PUT /api/orders/{order_id}
ApiUpdateOrder(id, update) ==
    /\ app = "api"
    /\ nCalls < MaxCalls
    /\ LET i   == ApiFind(orders_db, id)
           req == [order_id |-> id, update |-> update]
       IN  IF i = 0
           THEN /\ orders_db' = orders_db
                /\ lastCall' = Response("api", "update", req, 404, <<>>)
           ELSE LET order == ApiApplyUpdate(orders_db[i], update)
                IN  /\ orders_db' = [orders_db EXCEPT ![i] = order]
                    /\ lastCall' = Response("api", "update", req, 200, order)
    /\ Called
    /\ UNCHANGED <<app, script, now, createLog, content_orders_db, tasks, default_dir, output_dirs, dbVars>>

\* DELETE /api/orders/{order_id}
ApiDeleteOrder(id) ==
    /\ app = "api"
    /\ nCalls < MaxCalls
    /\ LET remaining == ApiRemove(orders_db, id)
           req == [order_id |-> id]
       IN  /\ orders_db' = remaining
           /\ lastCall' = IF Len(remaining) = Len(orders_db)
                          THEN Response("api", "delete", req, 404, <<>>)
                          ELSE Response("api", "delete", req, 200, <<>>)
    /\ Called
    /\ UNCHANGED <<app, script, now, createLog, content_orders_db, tasks, default_dir, output_dirs, dbVars>>

(***************************************************************************)
(* content_api.py                                                          *)
(***************************************************************************)
\* order ids generate_order_id returns ("SE-<date>-<8 hex digits>")
ContentId(n) == "SE-20240101-" \o Pad4(n) \o "ABCD"

ContentIds == {ContentId(n) : n \in 1..MaxOrders}

\* generate_order_id with the random part left out: the id is the date alone
generate_order_id_DateOnly(used) == "SE-20240101-" \o Pad4(1) \o "ABCD"

\* generate_order_id: uuid4 is taken to return a value it has not returned
\* before; which one is immaterial, so the n-th call returns the n-th id
generate_order_id(used) == ContentId(Cardinality(used) + 1)

ContentOrder(complete, tier, total) ==
    [complete |-> complete, business_type |-> "Plumbing",
     package_tier |-> tier, order_total |-> total]

\* ContentOrder bodies; complete = all required fields are present
ContentCreateRequests ==
    { ContentOrder(FALSE, "dominance", 49700),
      ContentOrder(TRUE, "dominance", 49700),
      ContentOrder(TRUE, "dominance", 49701),
      ContentOrder(TRUE, "dominance", 49702),
      ContentOrder(TRUE, "jumpstart", 35900),
      ContentOrder(TRUE, "jumpstart", 49700),
      ContentOrder(TRUE, "platinum", 49700) }

Abs(x) == IF x < 0 THEN -x ELSE x

valid_tiers == {"jumpstart", "dominance"}

expected_prices(tier) == IF tier = "jumpstart" THEN 35900 ELSE 49700

\* validate_order_data with the tier list cut down to the default tier
validate_order_data_DominanceOnly(order) ==
    /\ order.package_tier = "dominance"
    /\ ~ (Abs(order.order_total - 49700) > 1)

\* validate_order_data without the check of the order total
validate_order_data_NoPriceCheck(order) == order.package_tier \in {"jumpstart", "dominance"}

\* validate_order_data: TRUE if it returns, FALSE if it raises HTTPException(400)
validate_order_data(order) ==
    /\ order.package_tier \in valid_tiers
    /\ ~ (Abs(order.order_total - expected_prices(order.package_tier)) > 1)

package_name(tier) ==
    IF tier = "dominance" THEN "Google Visibility Dominance"
    ELSE "Google Visibility Jumpstart"

\* the order record, stored as pending instead of processing
ContentOrderRecordPending(id, order, t) ==
    [order_id |-> id, created_at |-> t,
     business_type |-> order.business_type,
     tier |-> order.package_tier,
     name |-> IF order.package_tier = "dominance" THEN "Google Visibility Dominance"
              ELSE "Google Visibility Jumpstart",
     price |-> order.order_total,
     status |-> "pending", files |-> {}, download_path |-> NoneStr,
     completed_at |-> AbsentInt, error |-> AbsentStr,
     download_ready |-> None, file_count |-> AbsentInt, preview_files |-> None]

\* the order record create_order stores
ContentOrderRecord(id, order, t) ==
    [order_id |-> id, created_at |-> t,
     business_type |-> order.business_type,
     tier |-> order.package_tier, name |-> package_name(order.package_tier),
     price |-> order.order_total,
     status |-> "processing", files |-> {}, download_path |-> NoneStr,
     completed_at |-> AbsentInt, error |-> AbsentStr,
     download_ready |-> None, file_count |-> AbsentInt, preview_files |-> None]

\* Path(f"generated_orders/{order_id}")
OutputDirOf(id) == "generated_orders/" \o id

\* the files main of Create_premium_content.py writes, in the order it
\* writes them: first the blog posts, then the plan and the report
BlogPosts(tier) ==
    IF tier = "jumpstart" THEN {"blog_post_1.md"}
    ELSE {"blog_post_1.md", "blog_post_4.md"}

GeneratorFiles(tier) == BlogPosts(tier) \cup {"gbp_plan.md", "client_report.md"}

\* the generator script the subprocess runs: create-premium-content.py as it
\* stands parses nothing and writes nothing (main is never called), "stub";
\* or the generator of Create_premium_content.py installed under that name, "main"
Scripts == {"stub", "main"}

\* files[:3] of a list whose order glob does not fix
FirstThree(files) ==
    IF Cardinality(files) <= 3 THEN {files}
    ELSE {s \in SUBSET files : Cardinality(s) = 3}

\* the task run at once, inside the request, instead of after the response
add_task_RunInline(order_id, order) ==
    [order_id |-> order_id, business_type |-> order.business_type,
     tier |-> order.package_tier, pc |-> "running", returncode |-> 0, wrote |-> {}]

\* background_tasks.add_task(generate_content_async, ...): the task is queued
\* and runs after the response has been sent
add_task(order_id, order) ==
    [order_id |-> order_id, business_type |-> order.business_type,
     tier |-> order.package_tier, pc |-> "scheduled", returncode |-> 0, wrote |-> {}]

\* POST /api/orders/create
ContentCreateOrder(order) ==
    /\ app = "content_api"
    /\ nCalls < MaxCalls
    /\ IF ~ order.complete
       THEN /\ lastCall' = Response("content_api", "create", order, 422, <<>>)
            /\ UNCHANGED <<now, content_orders_db, tasks, createLog>>
       ELSE IF ~ validate_order_data(order)
       THEN /\ lastCall' = Response("content_api", "create", order, 400, <<>>)
            /\ UNCHANGED <<now, content_orders_db, tasks, createLog>>
       ELSE LET order_id == generate_order_id(DOMAIN content_orders_db) IN
            /\ Cardinality(DOMAIN content_orders_db) < MaxOrders
            /\ content_orders_db' =
                   [id \in DOMAIN content_orders_db \cup {order_id} |->
                       IF id = order_id THEN ContentOrderRecord(order_id, order, now)
                       ELSE content_orders_db[id]]
            /\ tasks' = Append(tasks, add_task(order_id, order))
            /\ lastCall' = Response("content_api", "create", order, 200,
                                    [order_id |-> order_id, status |-> "processing"])
            /\ Logged("content_api", order, order_id)
            /\ now' = now + 1
    /\ Called
    /\ UNCHANGED <<app, script, orders_db, default_dir, output_dirs, dbVars>>

\* generate_content_async up to its first await: the output directory is
\* made and the generator subprocess is started (or fails to start)
TaskStart(k) ==
    /\ app = "content_api"
    /\ k \in DOMAIN tasks
    /\ tasks[k].pc = "scheduled"
    /\ LET id == tasks[k].order_id
       IN  /\ output_dirs' = [d \in DOMAIN output_dirs \cup {id} |->
                                 IF d \in DOMAIN output_dirs THEN output_dirs[d] ELSE {}]
           /\ \/ /\ tasks' = [tasks EXCEPT ![k].pc = "running"]
                 /\ UNCHANGED content_orders_db
              \/ /\ tasks' = [tasks EXCEPT ![k].pc = "done"]
                 /\ content_orders_db' =
                        [content_orders_db EXCEPT ![id].status = "failed",
                                                  ![id].error = "spawn failed"]
    /\ UNCHANGED <<app, script, now, createLog, orders_db, nCalls, lastCall, default_dir, dbVars>>

\* a directory after files have been written into it
WriteInto(dir, files) == IF dir = None THEN Some(files) ELSE Some(dir[1] \cup files)

\* the generator subprocess, main of Create_premium_content.py up to the last
\* blog post: os.makedirs(output_dir, exist_ok=True) and the posts written
SubprocessWrite(k) ==
    /\ app = "content_api"
    /\ k \in DOMAIN tasks
    /\ tasks[k].pc = "running"
    /\ script = "main"
    /\ tasks' = [tasks EXCEPT ![k].pc = "writing", ![k].wrote = BlogPosts(tasks[k].tier)]
    /\ default_dir' = WriteInto(default_dir, BlogPosts(tasks[k].tier))
    /\ UNCHANGED <<app, script, now, createLog, orders_db, nCalls, lastCall, content_orders_db, output_dirs, dbVars>>

\* the rest of a generator run that has written its blog posts: the plan and the
\* report are written and the process exits with 0; open() raises and the
\* process exits with 1 if the directory is no longer there
FinishWriting(task, dir) ==
    IF dir = None
    THEN [task EXCEPT !.pc = "exited", !.returncode = 1]
    ELSE [task EXCEPT !.pc = "exited", !.returncode = 0,
                      !.wrote = GeneratorFiles(task.tier)]

\* the generator subprocess runs to its end: exit code, and for exit code 0
\* the files it wrote under premium_delivery_<business type>
SubprocessExit(k) ==
    /\ app = "content_api"
    /\ k \in DOMAIN tasks
    /\ \/ /\ tasks[k].pc = "running"
          /\ \E rc \in (IF script = "stub" THEN {0, 1} ELSE {1}) :
                tasks' = [tasks EXCEPT ![k].pc = "exited", ![k].returncode = rc]
          /\ UNCHANGED default_dir
       \/ /\ tasks[k].pc = "writing"
          /\ tasks' = [tasks EXCEPT ![k] = FinishWriting(tasks[k], default_dir)]
          /\ default_dir' =
                 IF default_dir = None THEN None
                 ELSE WriteInto(default_dir, GeneratorFiles(tasks[k].tier))
    /\ UNCHANGED <<app, script, now, createLog, orders_db, nCalls, lastCall, content_orders_db, output_dirs, dbVars>>

\* the generator runs of other orders that write into the same directory
\* premium_delivery_<business type> and are between two of their writes
WritersBeside(k) ==
    {j \in DOMAIN tasks : /\ j /= k
                          /\ tasks[j].pc = "writing"
                          /\ tasks[j].business_type = tasks[k].business_type}

\* the except clause recording the error only
OrderCrashed_StatusKept(order, message) == [order EXCEPT !.error = message]

\* the record of an order whose generation raised: the except clause
OrderCrashed(order, message) == [order EXCEPT !.status = "failed", !.error = message]

\* generate_content_async after process.communicate() returns.  The files of
\* default_dir are moved and the directory is removed without an await; a
\* generator process of another order is not held up by that, and a file it
\* writes after iterdir has listed the directory makes rmdir raise
TaskFinish(k) ==
    /\ app = "content_api"
    /\ k \in DOMAIN tasks
    /\ tasks[k].pc = "exited"
    /\ LET id == tasks[k].order_id
       IN  IF tasks[k].returncode = 0
           THEN LET moved == IF default_dir = None THEN {} ELSE default_dir[1]
                    files == output_dirs[id] \cup moved
                    completed == [content_orders_db[id] EXCEPT
                                     !.status = "completed", !.completed_at = now]
                IN  /\ output_dirs' = [output_dirs EXCEPT ![id] = files]
                    /\ \/ /\ tasks' = [tasks EXCEPT ![k].pc = "done"]
                          /\ default_dir' = None
                          /\ content_orders_db' =
                                 [content_orders_db EXCEPT
                                     ![id] = [completed EXCEPT
                                                 !.files = files,
                                                 !.download_path = OutputDirOf(id)]]
                       \/ \E j \in WritersBeside(k) :
                          /\ default_dir /= None
                          /\ tasks' = [tasks EXCEPT
                                          ![k].pc = "done",
                                          ![j] = FinishWriting(tasks[j], default_dir)]
                          /\ default_dir' = Some(GeneratorFiles(tasks[j].tier)
                                                   \ BlogPosts(tasks[j].tier))
                          /\ content_orders_db' =
                                 [content_orders_db EXCEPT
                                     ![id] = OrderCrashed(completed, "Directory not empty")]
           ELSE /\ tasks' = [tasks EXCEPT ![k].pc = "done"]
                /\ content_orders_db' =
                       [content_orders_db EXCEPT
                           ![id] = OrderCrashed(content_orders_db[id], "generator error")]
                /\ UNCHANGED <<default_dir, output_dirs>>
    /\ UNCHANGED <<app, script, now, createLog, orders_db, nCalls, lastCall, dbVars>>

\* GET /api/orders/{order_id}
ContentGetOrderStatus(id) ==
    /\ app = "content_api"
    /\ nCalls < MaxCalls
    /\ LET req == [order_id |-> id]
       IN  IF id \notin DOMAIN content_orders_db
           THEN /\ lastCall' = Response("content_api", "get", req, 404, <<>>)
                /\ UNCHANGED content_orders_db
           ELSE IF content_orders_db[id].status = "completed"
           THEN \E preview \in FirstThree(content_orders_db[id].files) :
                LET order == [content_orders_db[id] EXCEPT
                                 !.download_ready = Some(TRUE),
                                 !.file_count = Cardinality(content_orders_db[id].files),
                                 !.preview_files = Some(preview)]
                IN  /\ content_orders_db' = [content_orders_db EXCEPT ![id] = order]
                    /\ lastCall' = Response("content_api", "get", req, 200, order)
           ELSE /\ lastCall' = Response("content_api", "get", req, 200,
                                        content_orders_db[id])
                /\ UNCHANGED content_orders_db
    /\ Called
    /\ UNCHANGED <<app, script, now, createLog, orders_db, tasks, default_dir, output_dirs, dbVars>>

\* the status test of download_order, letting through all but failed orders
ReadyForDownload_NotFailed(order) == order.status /= "failed"

\* download_order: order["status"] != "completed" raises HTTPException(400)
ReadyForDownload(order) == order.status = "completed"

\* GET /api/orders/{order_id}/download
ContentDownloadOrder(id) ==
    /\ app = "content_api"
    /\ nCalls < MaxCalls
    /\ LET req == [order_id |-> id]
       IN  lastCall' =
             IF id \notin DOMAIN content_orders_db
             THEN Response("content_api", "download", req, 404, <<>>)
             ELSE IF ~ ReadyForDownload(content_orders_db[id])
             THEN Response("content_api", "download", req, 400, <<>>)
             ELSE Response("content_api", "download", req, 200,
                           [order_id |-> id, status |-> "ready",
                            files |-> content_orders_db[id].files,
                            generated_on |-> content_orders_db[id].completed_at])
    /\ Called
    /\ UNCHANGED <<app, script, now, createLog, orders_db, content_orders_db, tasks, default_dir, output_dirs, dbVars>>

(***************************************************************************)
(* api_with_email_notification.py over the tables of database.py           *)
(***************************************************************************)
\* class OrderStatus(enum.Enum): the values
OrderStatus ==
    {"pending", "processing", "pending_approval", "approved", "publishing",
     "completed", "failed", "cancelled"}

\* order ids f"ORD_{uuid.uuid4().hex[:12].upper()}"; uuid4 is taken to return
\* a value it has not returned before, the n-th call returns the n-th id
EmailId(n) == "ORD_" \o Pad4(n) \o "89ABCDEF"

EmailIds == {EmailId(n) : n \in 1..MaxOrders}

\* len(topic) for the topics of the requests
TopicLen(topic) ==
    CASE topic = "" -> 0
      [] topic = "SEO" -> 3
      [] topic = "Dental SEO" -> 10

\* OrderCreateRequest: customer_email is an EmailStr, 5 <= len(topic) <= 500
OrderCreateRequestValid(req) ==
    /\ req.email_ok
    /\ TopicLen(req.topic) >= 5
    /\ TopicLen(req.topic) <= 500

EmailCreateRequests ==
    { [email_ok |-> e, tenant_id |-> "DIRECT_CUSTOMER", topic |-> t] :
        e \in BOOLEAN, t \in {"", "SEO", "Dental SEO"} }

\* what the database does during create_order: nothing wrong, session.commit()
\* raises, or session.refresh() raises after the commit
DbFaults == {"none", "commit", "refresh"}

\* the row create_order inserts (retry_count by its column default)
OrderRow(id, req, t) ==
    [order_id |-> id, tenant_id |-> req.tenant_id, topic |-> req.topic,
     status |-> "pending", created_at |-> t, updated_at |-> t,
     retry_count |-> 0]

\* session.query(Order).filter(Order.order_id == order_id).first()
RowsWithId(rows, id) == {r \in rows : r.order_id = id}

\* rows ordered by created_at descending
RECURSIVE OrderByCreatedDesc(_)
OrderByCreatedDesc(rows) ==
    IF rows = {} THEN <<>>
    ELSE LET newest == CHOOSE r \in rows : \A q \in rows : q.created_at <= r.created_at
         IN  <<newest>> \o OrderByCreatedDesc(rows \ {newest})

\* status values sent to list_orders and update_order_status
RequestStatuses == OrderStatus \cup {"paid"}

\* send_order_notification with the SMTP error passed on to the caller
send_order_notification_Reraises(smtp_raises) ==
    IF smtp_raises THEN "raised" ELSE "returned"

\* send_order_notification: an exception of the SMTP send is caught and
\* printed (except Exception), the function returns either way
send_order_notification(smtp_raises) == "returned"

\* get_session without the test of SessionLocal
get_session_NoCheck(session_local) == "Session"

\* get_session: RuntimeError if SessionLocal is None, else SessionLocal()
get_session(session_local) ==
    IF session_local = NoneStr THEN "RuntimeError" ELSE "Session"

\* what can happen inside init_database
InitOutcomes == {"ok", "create_engine_raises", "create_all_raises"}

\* init_database(database_url), called by lifespan when the application
\* starts: SessionLocal is assigned after create_engine and before create_all
InitDatabase(outcome) ==
    /\ app = "email_api"
    /\ db_init = "not_called"
    /\ SessionLocal' = IF outcome = "create_engine_raises" THEN SessionLocal
                       ELSE "sessionmaker"
    /\ db_init' = IF outcome = "ok" THEN "ok" ELSE "raised"
    /\ lastCall' = Response("database", "init_database", [outcome |-> outcome], 0,
                            IF outcome = "ok" THEN "returned" ELSE "raised")
    /\ UNCHANGED <<app, script, now, createLog, orders_db, content_orders_db, tasks, default_dir,
                   output_dirs, db_orders, db_jobs, db_audit_logs, order_count,
                   notification, nCalls>>

\* get_session(), called directly
GetSession ==
    /\ app = "email_api"
    /\ lastCall' = Response("database", "get_session", <<>>, 0, get_session(SessionLocal))
    /\ UNCHANGED <<app, script, now, createLog, orders_db, content_orders_db, tasks, default_dir,
                   output_dirs, dbVars, nCalls>>

\* the application serves requests once lifespan has initialized the database
Serving == db_init = "ok" /\ get_session(SessionLocal) = "Session"

\* POST /api/orders/create
EmailCreateOrder(req, fault, smtp_raises) ==
    /\ app = "email_api"
    /\ Serving
    /\ nCalls < MaxCalls
    /\ IF ~ OrderCreateRequestValid(req)
       THEN /\ lastCall' = Response("email_api", "create", req, 422, <<>>)
            /\ notification' = "none"
            /\ UNCHANGED <<now, db_orders, order_count, createLog>>
       ELSE IF fault = "commit"
       THEN /\ lastCall' = Response("email_api", "create", req, 500, <<>>)
            /\ notification' = "none"
            /\ UNCHANGED <<now, db_orders, order_count, createLog>>
       ELSE LET order == OrderRow(EmailId(Cardinality(db_orders) + 1), req, now) IN
            /\ Cardinality(db_orders) < MaxOrders
            /\ db_orders' = db_orders \cup {order}
            /\ now' = now + 1
            /\ IF fault = "refresh"
               THEN /\ lastCall' = Response("email_api", "create", req, 500, <<>>)
                    /\ notification' = "none"
                    /\ UNCHANGED <<order_count, createLog>>
               ELSE /\ order_count' = order_count + 1
                    /\ notification' = IF smtp_raises THEN "failed" ELSE "sent"
                    /\ IF send_order_notification(smtp_raises) = "raised"
                       THEN /\ lastCall' = Response("email_api", "create", req, 500, <<>>)
                            /\ UNCHANGED createLog
                       ELSE /\ lastCall' = Response("email_api", "create", req, 200,
                                                    [order_id |-> order.order_id,
                                                     status |-> order.status])
                            /\ Logged("email_api", req, order.order_id)
    /\ Called
    /\ UNCHANGED <<app, script, orders_db, content_orders_db, tasks, default_dir, output_dirs,
                   db_jobs, db_audit_logs, sessionVars>>

\* GET /api/orders/{order_id}
EmailGetOrder(id) ==
    /\ app = "email_api"
    /\ Serving
    /\ nCalls < MaxCalls
    /\ LET found == RowsWithId(db_orders, id)
           req == [order_id |-> id]
       IN  lastCall' = IF found = {}
                       THEN Response("email_api", "get", req, 404, <<>>)
                       ELSE Response("email_api", "get", req, 200,
                                     CHOOSE r \in found : TRUE)
    /\ Called
    /\ UNCHANGED <<app, script, now, createLog, orders_db, content_orders_db, tasks, default_dir,
                   output_dirs, db_orders, db_jobs, db_audit_logs, order_count,
                   notification, sessionVars>>

\* GET /orders?status=
EmailListOrders(status) ==
    /\ app = "email_api"
    /\ Serving
    /\ nCalls < MaxCalls
    /\ LET req == [status |-> status]
       IN  lastCall' =
             IF Truthy(status) /\ status[1] \notin OrderStatus
             THEN Response("email_api", "list", req, 400, <<>>)
             ELSE Response("email_api", "list", req, 200,
                    OrderByCreatedDesc(
                        IF Truthy(status)
                        THEN {r \in db_orders : r.status = status[1]}
                        ELSE db_orders))
    /\ Called
    /\ UNCHANGED <<app, script, now, createLog, orders_db, content_orders_db, tasks, default_dir,
                   output_dirs, db_orders, db_jobs, db_audit_logs, order_count,
                   notification, sessionVars>>

\* PATCH /api/orders/{order_id}/status
EmailUpdateOrderStatus(id, status) ==
    /\ app = "email_api"
    /\ Serving
    /\ nCalls < MaxCalls
    /\ LET found == RowsWithId(db_orders, id)
           req == [order_id |-> id, status |-> status]
       IN  IF status \notin OrderStatus
           THEN /\ lastCall' = Response("email_api", "update_status", req, 400, <<>>)
                /\ UNCHANGED db_orders
           ELSE IF found = {}
           THEN /\ lastCall' = Response("email_api", "update_status", req, 404, <<>>)
                /\ UNCHANGED db_orders
           ELSE LET old == CHOOSE r \in found : TRUE
                    order == [old EXCEPT !.status = status, !.updated_at = now]
                IN  /\ db_orders' = (db_orders \ {old}) \cup {order}
                    /\ lastCall' = Response("email_api", "update_status", req, 200,
                                            [order_id |-> id, status |-> status])
    /\ Called
    /\ UNCHANGED <<app, script, now, createLog, orders_db, content_orders_db, tasks, default_dir,
                   output_dirs, db_jobs, db_audit_logs, order_count,
                   notification, sessionVars>>

Init ==
    /\ app \in Apps
    /\ script \in (IF app = "content_api" THEN Scripts ELSE {"stub"})
    /\ now = 100
    /\ orders_db = InitialOrdersDb
    /\ content_orders_db = <<>>
    /\ tasks = <<>>
    /\ default_dir = None
    /\ output_dirs = <<>>
    /\ db_orders = {}
    /\ db_jobs = {}
    /\ db_audit_logs = <<>>
    /\ order_count = 0
    /\ notification = "none"
    /\ SessionLocal = NoneStr
    /\ db_init = "not_called"
    /\ createLog = {}
    /\ nCalls = 0
    /\ lastCall = NoCall

Next ==
    \/ \E req \in ApiCreateRequests : ApiCreateOrder(req)
    \/ ApiListOrders
    \/ \E id \in ApiRequestIds : ApiGetOrder(id)
    \/ \E id \in ApiRequestIds, update \in ApiUpdateRequests : ApiUpdateOrder(id, update)
    \/ \E id \in ApiRequestIds : ApiDeleteOrder(id)
    \/ \E order \in ContentCreateRequests : ContentCreateOrder(order)
    \/ \E k \in DOMAIN tasks : TaskStart(k)
    \/ \E k \in DOMAIN tasks : SubprocessWrite(k)
    \/ \E k \in DOMAIN tasks : SubprocessExit(k)
    \/ \E k \in DOMAIN tasks : TaskFinish(k)
    \/ \E id \in ContentIds : ContentGetOrderStatus(id)
    \/ \E id \in ContentIds : ContentDownloadOrder(id)
    \/ \E outcome \in InitOutcomes : InitDatabase(outcome)
    \/ GetSession
    \/ \E req \in EmailCreateRequests, fault \in DbFaults, smtp_raises \in BOOLEAN :
          EmailCreateOrder(req, fault, smtp_raises)
    \/ \E id \in EmailIds : EmailGetOrder(id)
    \/ \E status \in {None} \cup {Some(st) : st \in {"pending", "completed", "paid"}} :
          EmailListOrders(status)
    \/ \E id \in EmailIds, status \in RequestStatuses : EmailUpdateOrderStatus(id, status)

Spec == Init /\ [][Next]_vars

\* The event loop runs every background task it has queued and resumes it when
\* its subprocess has ended, and a generator subprocess ends.
Fairness ==
    \A k \in 1..MaxOrders :
        /\ WF_vars(TaskStart(k))
        /\ WF_vars(SubprocessExit(k))
        /\ WF_vars(TaskFinish(k))

FairSpec == Spec /\ Fairness

(***************************************************************************)
(* Properties                                                              *)
(***************************************************************************)
\* a step that handles one HTTP request
CallStep == nCalls' = nCalls + 1

\* the stores of orders and the scheduled generation work
stores == <<orders_db, content_orders_db, tasks, db_orders>>

\* C1: idempotent creation -- create_order calls made with the same request
\* all return the same order id, so that one request stands for one order
C1_IdempotentCreation ==
    \A a, b \in createLog :
        (a.api = b.api /\ a.req = b.req) => a.order_id = b.order_id

\* C2: state monotonicity -- an order whose status is completed or cancelled
\* has the same status after every step
Terminal == {"completed", "cancelled"}

C2_TerminalStatusIsFinal ==
    [][ /\ \A i \in DOMAIN orders_db :
             (/\ orders_db[i].status \in Terminal
              /\ i \in DOMAIN orders_db'
              /\ orders_db'[i].order_id = orders_db[i].order_id)
             => orders_db'[i].status = orders_db[i].status
        /\ \A id \in DOMAIN content_orders_db :
             content_orders_db[id].status \in Terminal
             => content_orders_db'[id].status = content_orders_db[id].status
        /\ \A r \in db_orders : \A q \in db_orders' :
             (r.status \in Terminal /\ q.order_id = r.order_id)
             => q.status = r.status ]_vars

\* C3: order identifiers are unique -- no two orders of a store have the same
\* order_id
C3_UniqueOrderIds ==
    /\ \A i, j \in DOMAIN orders_db :
          i /= j => orders_db[i].order_id /= orders_db[j].order_id
    /\ \A id \in DOMAIN content_orders_db : content_orders_db[id].order_id = id
    /\ \A r, q \in db_orders : r /= q => r.order_id /= q.order_id

\* C4: orders are never physically deleted -- an order that is in a store is
\* in it after every step
C4_OrdersAreKept ==
    [][ /\ \A i \in DOMAIN orders_db : \E j \in DOMAIN orders_db' :
             orders_db'[j].order_id = orders_db[i].order_id
        /\ DOMAIN content_orders_db \subseteq DOMAIN content_orders_db'
        /\ \A r \in db_orders : \E q \in db_orders' : q.order_id = r.order_id ]_vars

\* C5: audit completeness -- a step that creates an order or changes an order's
\* status appends an audit entry with that order's id and the status before
\* and after (before is None for a creation)
AuditedIn(log, id, before, after) ==
    \E n \in DOMAIN log :
        /\ log[n].entity_id = id
        /\ log[n].details.before = before
        /\ log[n].details.after = after

NewAuditEntries == SubSeq(db_audit_logs', Len(db_audit_logs) + 1, Len(db_audit_logs'))

C5_AuditCompleteness ==
    [][ \A q \in db_orders' :
          /\ (\A r \in db_orders : r.order_id /= q.order_id)
             => AuditedIn(NewAuditEntries, q.order_id, NoneStr, q.status)
          /\ \A r \in db_orders :
               (r.order_id = q.order_id /\ r.status /= q.status)
               => AuditedIn(NewAuditEntries, q.order_id, r.status, q.status) ]_vars

\* C6: bounded retry -- a step takes an order from failed to pending only if
\* its retry counter is below the bound, and the step increments the counter
MaxRetries == 3

C6_BoundedRetry ==
    [][ \A r \in db_orders : \A q \in db_orders' :
          (q.order_id = r.order_id /\ r.status = "failed" /\ q.status = "pending")
          => (r.retry_count < MaxRetries /\ q.retry_count = r.retry_count + 1) ]_vars

\* C7: job composition -- every order has exactly one job of each kind of the
\* fixed set of three
JobKinds == {"primary_article", "secondary_summary", "micro_post"}

C7_JobComposition ==
    \A r \in db_orders : \A kind \in JobKinds :
        Cardinality({j \in db_jobs : j.order_id = r.order_id /\ j.job_type = kind}) = 1

\* the order a successful create_order call reports is in the store, with
\* the given status
CreatedWithStatus(call, status) ==
    CASE call.api = "api" ->
           /\ call.body.status = status
           /\ \E i \in DOMAIN orders_db' : orders_db'[i] = call.body
      [] call.api = "content_api" ->
           /\ call.body.order_id \in DOMAIN content_orders_db'
           /\ content_orders_db'[call.body.order_id].status = status
      [] call.api = "email_api" ->
           \E r \in db_orders' : r.order_id = call.body.order_id /\ r.status = status

CreateReturned(call) == call.op = "create" /\ call.code = 200

C8_InitialStatus(call) ==
    CASE call.api = "api" ->
           IF call.req.order_type = "one_time" THEN "pending" ELSE "active"
      [] call.api = "content_api" -> "processing"
      [] call.api = "email_api" -> "pending"

C9_QueriesOnlyRead ==
    [][ (CallStep /\ lastCall'.op \in {"get", "list"})
        => UNCHANGED <<orders_db, content_orders_db, db_orders>> ]_vars

\* a request that validation has to reject: a content order with a required
\* field missing, with a package tier that is not offered or with a total
\* more than a cent off the tier's price; a status update to a value that is
\* not a member of OrderStatus
C10_Invalid(call) ==
    \/ /\ call.api = "content_api"
       /\ call.op = "create"
       /\ \/ ~ call.req.complete
          \/ call.req.package_tier \notin {"jumpstart", "dominance"}
          \/ (call.req.package_tier = "jumpstart" /\ Abs(call.req.order_total - 35900) > 1)
          \/ (call.req.package_tier = "dominance" /\ Abs(call.req.order_total - 49700) > 1)
    \/ /\ call.api = "email_api"
       /\ call.op = "update_status"
       /\ call.req.status \notin OrderStatus

\* C10: a request rejected by validation causes no state change -- it is
\* answered with an error, stores no order, schedules no generation and
\* leaves every order as it was
C10_RejectionChangesNothing ==
    [][ (CallStep /\ C10_Invalid(lastCall'))
        => /\ lastCall'.code \in {400, 422}
           /\ UNCHANGED <<stores, default_dir, output_dirs, createLog>> ]_vars

\* C10 witness: content_api has rejected an order whose total does not match
\* the price of its tier
C10_Witness ==
    /\ lastCall.api = "content_api"
    /\ lastCall.op = "create"
    /\ lastCall.code = 400
    /\ lastCall.req.package_tier = "jumpstart"
    /\ lastCall.req.order_total = 49700

\* C11: create_order accepts a request only if its topic is non-empty -- no
\* create_order call that succeeded was made with the empty topic
C11_TopicNonEmpty ==
    \A c \in createLog : c.api \in {"api", "email_api"} => c.req.topic /= ""

\* a sequence of orders is ordered newest first
NewestFirst(orders) ==
    \A i, j \in DOMAIN orders : i < j => orders[i].created_at >= orders[j].created_at

\* the orders a list_orders request asks for
C12_Selected(call) ==
    IF call.api = "api" THEN {orders_db[i] : i \in DOMAIN orders_db}
    ELSE IF Truthy(call.req.status)
         THEN {r \in db_orders : r.status = call.req.status[1]}
         ELSE db_orders

\* C12: list_orders returns exactly the orders with the status asked for (all
\* orders without a filter), ordered newest first by creation time
C12_ListNewestFirst ==
    (lastCall.op = "list" /\ lastCall.code = 200)
    => /\ {lastCall.body[i] : i \in DOMAIN lastCall.body} = C12_Selected(lastCall)
       /\ NewestFirst(lastCall.body)

\* C13: at most one processing execution per order -- in content_api no two
\* background tasks, scheduled, running or finished, are for the same order id
C13_OneTaskPerOrder ==
    \A k, l \in DOMAIN tasks : tasks[k].order_id = tasks[l].order_id => k = l

\* C13 witness: two orders are being generated at the same time
C13_Witness ==
    \E k, l \in DOMAIN tasks :
        /\ k /= l
        /\ tasks[k].pc = "running"
        /\ tasks[l].pc \in {"scheduled", "running"}

\* C14: no incomplete content is presented as complete -- an order that
\* get_order_status reports as completed, or download_order serves, lists at
\* least one file
C14_CompletedHasFiles ==
    /\ (lastCall.api = "content_api" /\ lastCall.op = "get" /\ lastCall.code = 200)
       => (lastCall.body.status = "completed" => lastCall.body.files /= {})
    /\ (lastCall.api = "content_api" /\ lastCall.op = "download" /\ lastCall.code = 200)
       => lastCall.body.files /= {}

\* C15: a create request whose tier is jumpstart or dominance and whose total
\* equals the tier's price succeeds -- it is answered with 200, the id of the
\* one order it adds to the store, and status processing
C15_Valid(req) ==
    /\ req.complete
    /\ \/ (req.package_tier = "jumpstart" /\ req.order_total = 35900)
       \/ (req.package_tier = "dominance" /\ req.order_total = 49700)

C15_ValidCreateSucceeds ==
    [][ (CallStep /\ lastCall'.api = "content_api" /\ lastCall'.op = "create"
           /\ C15_Valid(lastCall'.req))
        => /\ lastCall'.code = 200
           /\ lastCall'.body.status = "processing"
           /\ lastCall'.body.order_id \notin DOMAIN content_orders_db
           /\ DOMAIN content_orders_db' =
                  DOMAIN content_orders_db \cup {lastCall'.body.order_id}
           /\ content_orders_db'[lastCall'.body.order_id].order_id = lastCall'.body.order_id
           /\ content_orders_db'[lastCall'.body.order_id].status = "processing"
           /\ \A id \in DOMAIN content_orders_db :
                  content_orders_db'[id] = content_orders_db[id] ]_vars

\* C15 witness: a jumpstart order at 359.00 has been accepted
C15_Witness ==
    /\ lastCall.api = "content_api"
    /\ lastCall.op = "create"
    /\ lastCall.code = 200
    /\ lastCall.req.package_tier = "jumpstart"
    /\ lastCall.req.order_total = 35900
    /\ lastCall.body.order_id \in DOMAIN content_orders_db

\* C16: processing is ordered after creation -- a background task that has
\* started was queued by an earlier step (the create_order call that stored
\* the order and produced the response), and its order is in the store
C16_TaskStartsAfterCreate ==
    [][ \A k \in DOMAIN tasks' :
          tasks'[k].pc /= "scheduled"
          => /\ k \in DOMAIN tasks
             /\ tasks[k].order_id \in DOMAIN content_orders_db
             /\ \E c \in createLog : c.api = "content_api"
                                     /\ c.order_id = tasks[k].order_id ]_vars

\* C16 witness: the generation task of a stored order is running
C16_Witness ==
    \E k \in DOMAIN tasks :
        /\ tasks[k].pc = "running"
        /\ tasks[k].order_id \in DOMAIN content_orders_db
        /\ content_orders_db[tasks[k].order_id].status = "processing"

\* C20: download_order returns an order's files only when the order is
\* completed -- for a stored order it answers 200 with the order's file list
\* if the status is completed, and 400 without a file list otherwise
C20_DownloadOnlyCompleted ==
    [][ (CallStep /\ lastCall'.api = "content_api" /\ lastCall'.op = "download"
           /\ lastCall'.req.order_id \in DOMAIN content_orders_db)
        => LET order == content_orders_db[lastCall'.req.order_id]
           IN  IF order.status = "completed"
               THEN lastCall'.code = 200 /\ lastCall'.body.files = order.files
               ELSE lastCall'.code = 400 /\ lastCall'.body = <<>> ]_vars

\* C20 witness: download_order has refused an order that is still processing
C20_Witness ==
    /\ lastCall.api = "content_api"
    /\ lastCall.op = "download"
    /\ lastCall.code = 400
    /\ lastCall.req.order_id \in DOMAIN content_orders_db
    /\ content_orders_db[lastCall.req.order_id].status = "processing"

\* the requests that name one order
C17_Ops == {"get", "update", "delete", "update_status", "download"}

\* the order id of the request is not in the store of its application
C17_Unknown(call) ==
    CASE call.api = "api" ->
           \A i \in DOMAIN orders_db : orders_db[i].order_id /= call.req.order_id
      [] call.api = "content_api" -> call.req.order_id \notin DOMAIN content_orders_db
      [] call.api = "email_api" -> \A r \in db_orders : r.order_id /= call.req.order_id
      [] OTHER -> FALSE

\* C17 as stated: a get, update, delete, status-update or download for an
\* order id that is not in the store is answered with 404 and leaves the
\* stores unchanged
C17_NotFoundChangesNothing ==
    [][ (CallStep /\ lastCall'.op \in C17_Ops /\ C17_Unknown(lastCall'))
        => /\ lastCall'.code = 404
           /\ UNCHANGED stores ]_vars

\* the status-update request carries a value that is not an OrderStatus
C17_BadStatus(call) ==
    call.op = "update_status" /\ call.req.status \notin OrderStatus

\* C17 amended: such a request leaves the stores unchanged and is answered
\* with 404, except that a status-update whose status value is not a member
\* of OrderStatus is answered with 400 (the value is checked before the
\* order is looked up)
C17_UnknownIdChangesNothing ==
    [][ (CallStep /\ lastCall'.op \in C17_Ops /\ C17_Unknown(lastCall'))
        => /\ lastCall'.code = IF C17_BadStatus(lastCall') THEN 400 ELSE 404
           /\ UNCHANGED stores ]_vars

\* C17 witness: update_order of api.py has answered 404 for an id that no
\* order of the list has
C17_Witness ==
    /\ lastCall.api = "api"
    /\ lastCall.op = "update"
    /\ lastCall.code = 404
    /\ \A i \in DOMAIN orders_db : orders_db[i].order_id /= lastCall.req.order_id

\* C18: a failure to send the notification email does not fail order
\* creation -- a create_order call in which the SMTP send raised is answered
\* with 200 and the id of an order that is in the table
C18_EmailFailureTolerated ==
    [][ (CallStep /\ lastCall'.api = "email_api" /\ lastCall'.op = "create"
           /\ notification' = "failed")
        => /\ lastCall'.code = 200
           /\ \E r \in db_orders' : r.order_id = lastCall'.body.order_id ]_vars

\* C18 witness: create_order has returned an order although the send raised
C18_Witness ==
    /\ lastCall.api = "email_api"
    /\ lastCall.op = "create"
    /\ lastCall.code = 200
    /\ notification = "failed"
    /\ \E r \in db_orders : r.order_id = lastCall.body.order_id

\* C19: get_session raises RuntimeError if init_database has not been called,
\* and returns a session once init_database has completed successfully
C19_GetSession ==
    lastCall.op = "get_session"
    => /\ db_init = "not_called" => lastCall.body = "RuntimeError"
       /\ db_init = "ok" => lastCall.body = "Session"

\* C19 witness: get_session has returned a session after init_database
C19_Witness ==
    /\ lastCall.op = "get_session"
    /\ db_init = "ok"
    /\ lastCall.body = "Session"

\* C21: api.py create_order stores the price of the package type -- 359 for
\* boost, 497 for dominance, 297 for retainer, whatever price the request
\* names -- and the price of the request for every other package type
C21_PriceFromPackage ==
    [][ (CallStep /\ lastCall'.api = "api" /\ lastCall'.op = "create")
        => LET stored == orders_db'[Len(orders_db')]
               req    == lastCall'.req
           IN  /\ Len(orders_db') = Len(orders_db) + 1
               /\ req.package_type = "boost" => stored.price = 35900
               /\ req.package_type = "dominance" => stored.price = 49700
               /\ req.package_type = "retainer" => stored.price = 29700
               /\ req.package_type \notin {"boost", "dominance", "retainer"}
                    => stored.price = req.price ]_vars

\* C21 witness: a dominance order asked for at another price is stored at
\* 497, and an order of an unlisted package at the price of its request
C21_Witness ==
    /\ \E i \in DOMAIN orders_db, c \in createLog :
          /\ c.api = "api" /\ c.order_id = orders_db[i].order_id
          /\ c.req.package_type = "dominance" /\ c.req.price /= 49700
          /\ orders_db[i].price = 49700
    /\ \E i \in DOMAIN orders_db, c \in createLog :
          /\ c.api = "api" /\ c.order_id = orders_db[i].order_id
          /\ c.req.package_type = "custom"
          /\ orders_db[i].price = c.req.price

\* the fields of a stored order of api.py
C22_Fields == DOMAIN InitialOrdersDb[1]

\* the request of an update names a value for this field
C22_Supplied(update, f) ==
    /\ f \in DOMAIN update
    /\ update[f] /= None

\* C22: api.py update_order changes only fields the request supplies, except
\* that a supplied price on a paid monthly order is also written to
\* total_billed; order_id and created_at keep their values, and every other
\* order of the store is left as it was
C22_UpdateFrame ==
    [][ (CallStep /\ lastCall'.api = "api" /\ lastCall'.op = "update"
           /\ lastCall'.code = 200)
        => /\ Len(orders_db') = Len(orders_db)
           /\ \E i \in DOMAIN orders_db :
                LET old    == orders_db[i]
                    new    == orders_db'[i]
                    update == lastCall'.req.update
                IN  /\ old.order_id = lastCall'.req.order_id
                    /\ \A j \in DOMAIN orders_db : j /= i => orders_db'[j] = orders_db[j]
                    /\ new.order_id = old.order_id
                    /\ new.created_at = old.created_at
                    /\ \A f \in C22_Fields :
                         new[f] /= old[f]
                         => \/ C22_Supplied(update, f)
                            \/ /\ f = "total_billed"
                               /\ C22_Supplied(update, "price")
                               /\ old.order_type = "monthly" /\ old.paid
                               /\ new.total_billed = update.price[1] ]_vars

\* C22 witness: an update of the price of a paid subscription has changed
\* its price and its total_billed
C22_Witness ==
    /\ lastCall.api = "api" /\ lastCall.op = "update" /\ lastCall.code = 200
    /\ lastCall.req.update.price = Some(10000)
    /\ lastCall.req.order_id = "SUB-0001"
    /\ lastCall.body.total_billed = 10000
    /\ \E i \in DOMAIN orders_db :
          orders_db[i].order_id = "SUB-0001" /\ orders_db[i].total_billed = 10000

\* C23: in content_api every order created eventually has status completed
\* or failed, given that generator subprocesses end and background tasks are
\* run; and an order that has left status processing never returns to it
C23_EventuallySettled ==
    /\ \A id \in ContentIds :
          (id \in DOMAIN content_orders_db)
             ~> /\ id \in DOMAIN content_orders_db
                /\ content_orders_db[id].status \in {"completed", "failed"}
    /\ [][ \A id \in DOMAIN content_orders_db :
              content_orders_db[id].status /= "processing"
              => content_orders_db'[id].status /= "processing" ]_vars

\* C23 witness: two orders were created, one has completed and one has failed
C23_Witness ==
    \E k, l \in DOMAIN tasks :
       /\ tasks[k].pc = "done" /\ tasks[l].pc = "done"
       /\ content_orders_db[tasks[k].order_id].status = "completed"
       /\ content_orders_db[tasks[l].order_id].status = "failed"

\* C26: in content_api an order has a completed_at value if and only if its
\* status is completed
C26_CompletedAtIffCompleted ==
    \A id \in DOMAIN content_orders_db :
       (content_orders_db[id].completed_at /= AbsentInt)
          <=> (content_orders_db[id].status = "completed")

\* C27: in content_api every order that ends completed lists exactly the
\* files its own generator run produced, also when another order of the same
\* business type is generated at the same time
C27_OwnFilesOnly ==
    \A k \in DOMAIN tasks :
       (tasks[k].pc = "done" /\ content_orders_db[tasks[k].order_id].status = "completed")
          => content_orders_db[tasks[k].order_id].files = tasks[k].wrote

\* C24: in api.py, get_order(X) right after create_order has returned an order
\* with id X returns that newly created order
C24_CreateGetRoundTrip ==
    [][ (CallStep /\ lastCall.api = "api" /\ lastCall.op = "create"
           /\ lastCall.code = 200
           /\ lastCall'.api = "api" /\ lastCall'.op = "get"
           /\ lastCall'.req.order_id = lastCall.body.order_id)
        => /\ lastCall'.code = 200
           /\ lastCall'.body = lastCall.body ]_vars

\* C25: in api_with_email_notification, a create_order call answered with
\* HTTP 500 has committed no order to the database
C25_ErrorCommitsNothing ==
    [][ (CallStep /\ lastCall'.api = "email_api" /\ lastCall'.op = "create"
           /\ lastCall'.code = 500)
        => db_orders' = db_orders ]_vars
====
